---- MODULE Spec2Model ----
(***************************************************************************)
(* A websocket crawl session of ricardolsmendes/websockets-asyncio.        *)
(*                                                                         *)
(* Two near-duplicate clients are modelled by one state machine, selected  *)
(* by `variant`:                                                           *)
(*   "scanner"   - DocumentScanner   + WebsocketResponsesManager           *)
(*   "inspector" - DocumentInspector + SendReceiveSyncHelper               *)
(*                                                                         *)
(* Scheduling is asyncio's: one event loop, cooperative tasks.  A task     *)
(* runs without interruption from one suspension point to the next, so     *)
(* every action below is one such run.  The suspension points are the      *)
(* channel receive (async for), the channel send (await websocket.send),   *)
(* the gather of a fan-out, the signal wait and the channel close.         *)
(***************************************************************************)
EXTENDS Integers, Sequences, FiniteSets, TLC

\* ------------------------------------------------------------------ bounds
\* Largest number of widget containers of the crawled document.
MaxContainers == 2
\* Largest number of units a misbehaving server sends on top of its replies
\* (units without id, replies to ids never issued, duplicated replies).
MaxBad == 1
\* Number of crawls run one after the other through the same object.
MaxCrawls == 2

\* --------------------------------------------------------------- constants
GET_DOCUMENT == "GetDocument"
GET_FIELDS_SUMMARY == "GetFieldsSummary"
GET_WIDGET_CONTAINER == "GetWidgetContainer"
GET_WIDGET_PROPERTIES == "GetWidgetProperties"

GUI_DOC_TYPES == {"biDashboard", "slide"}

\* Document types the server may declare; "report" is outside GUI_DOC_TYPES.
DocTypes == {"biDashboard", "slide", "report"}

Variants == {"scanner", "inspector"}

\* The public methods the two correlation tables define.
ResponsesManagerAttrs ==
    {"add_pending_id", "add_pending_ids", "remove_pending_id", "is_pending",
     "is_method", "add_unhandled", "remove_unhandled", "get_all_unhandled",
     "were_all_precessed", "notify_new_response", "wait_for_responses",
     "is_there_response_notification", "clear_response_notifications"}

SyncHelperAttrs ==
    {"add_pending_reply_id", "add_pending_reply_ids", "remove_pending_reply_id",
     "is_pending_reply", "is_method", "add_unhandled_reply",
     "remove_unhandled_reply", "get_all_unhandled_replies",
     "were_all_replies_processed", "notify_new_reply", "wait_for_replies",
     "is_there_reply_notification", "clear_reply_notifications"}

TableAttrs(v) == IF v = "scanner" THEN ResponsesManagerAttrs ELSE SyncHelperAttrs

\* The name under which the producer loop calls the completion test.
CompletionTestCall(v) ==
    IF v = "scanner" THEN "were_all_precessed" ELSE "were_all_replies_precessed"

\* Python attribute lookup on the table object: a missing name raises
\* AttributeError at the call.
HasAttr(v, name) == name \in TableAttrs(v)

\* Exception classes that occur, and the builtin `Exception` they derive from.
ExceptionClasses ==
    {"ValueError", "AttributeError", "ConnectionClosed", "ConnectionError",
     "TimeoutError"}

\* `except <handler>:` catches exc.
Catches(handler, e) ==
    \/ handler = e
    \/ handler = "Exception" /\ e \in ExceptionClasses

\* ------------------------------------------------------------------- units
\* One inbound unit.  id = 0 stands for a unit that carries no identifier
\* (response.get('id') is None, and `not response_id` is also true of 0).
Reply(i, hw, ty, ids, v) ==
    [id |-> i, hasWidgets |-> hw, type |-> ty, ids |-> ids, val |-> v]

NoIdUnit == Reply(0, FALSE, "", <<>>, 0)

Request(i, m, a) == [id |-> i, method |-> m, arg |-> a]

\* ------------------------------------------------------- sequence helpers
Range(s) == {s[i] : i \in 1..Len(s)}

\* list.index
IndexOf(s, x) == CHOOSE i \in 1..Len(s) : s[i] = x /\ \A j \in 1..(i - 1) : s[j] # x

\* list.remove(x) on a list that holds x: drops the first equal element.
RemoveFirst(s, x) ==
    LET k == IndexOf(s, x)
    IN  [i \in 1..(Len(s) - 1) |-> IF i < k THEN s[i] ELSE s[i + 1]]

\* --------------------------------------------------------------- variables
VARIABLES
    variant,      \* which client runs the session
    doc,          \* the document on the server: [hasWidgets, type, containers]
    crawl,        \* which call of scan_widgets / get_widgets on the object
    driver,       \* the session driver: init, running, teardown, finished
    exc,          \* the failure propagating out of the session, or "none"
    outcome,      \* the public call: "pending", "returned", "raised"
    retval,       \* the list the public call returned
    logged,       \* kinds of log records written so far
    channel,      \* the websocket: "none", "open", "closing", "closed"
    wire,         \* requests sent and not yet answered by the server
    bad,          \* number of unsolicited units the consumer has received
    counter,      \* __requests_counter / __messages_counter
    pending_ids,  \* __pending_ids / __pending_reply_ids
    history,      \* __api_calls_history / __messages_history
    unhandled,    \* __unhandled_responses / __unhandled_replies
    event,        \* __new_response_event / __new_reply_event is set
    cpc,          \* consumer task: start, recv, done, failed, cancelled
    cexc,         \* the exception the consumer raised
    results,      \* the consumer's local list `results`
    ppc,          \* producer task: start, wait, send, gather, closing, done,
                  \*   failed, cancelled, spin
    pexc,         \* the exception the producer raised
    it,           \* index of the list iterator of the producer's for loop
    cur,          \* the reply the producer is handling
    newIds,       \* ids of the follow-up requests sent, not yet registered
    todo,         \* arguments of the fan-out's sends not yet started
    regMethod,    \* method under which newIds will be registered
    drain,        \* the unhandled list as it was when the for loop started
    missed,       \* replies the last finished for loop left unhandled
    ruc,          \* what __run_until_complete did: [status, value, raised,
                  \*   cancel_calls, closed]
    sent,         \* every request the session has issued
    arrived       \* terminal payloads in the order their replies arrived

vars == <<variant, doc, crawl, driver, exc, outcome, retval, logged, channel, wire,
          bad, counter, pending_ids, history, unhandled, event, cpc, cexc,
          results, ppc, pexc, it, cur, newIds, todo, regMethod, drain,
          missed, ruc, sent, arrived>>

driverVars == <<driver, exc, outcome, retval, ruc>>
serverVars == <<wire, bad>>
tableVars == <<pending_ids, history, unhandled, event>>
consumerVars == <<cpc, cexc, results>>
producerVars == <<ppc, pexc, it, cur, newIds, todo, regMethod, drain, missed>>

\* ------------------------------------------------------------------- Init
Containers(n) == [i \in 1..n |-> i]

\* __run_until_complete has not run yet.
NotRun == [status |-> "none", value |-> <<>>, raised |-> "none",
           cancel_calls |-> 0, closed |-> FALSE]

Init ==
    /\ variant \in Variants
    /\ \E n \in 0..MaxContainers :
          \/ /\ variant = "scanner"
             /\ \E hw \in BOOLEAN :
                   doc = [hasWidgets |-> hw, type |-> "", containers |-> Containers(n)]
          \/ /\ variant = "inspector"
             /\ \E ty \in DocTypes :
                   doc = [hasWidgets |-> FALSE, type |-> ty, containers |-> Containers(n)]
    /\ crawl = 1
    /\ driver = "init"
    /\ exc = "none"
    /\ outcome = "pending"
    /\ retval = <<>>
    /\ logged = {}
    /\ channel = "none"
    /\ wire = {}
    /\ bad = 0
    /\ counter = 0
    /\ pending_ids = <<>>
    /\ history = <<>>
    /\ unhandled = <<>>
    /\ event = FALSE
    /\ cpc = "none"
    /\ cexc = "none"
    /\ results = <<>>
    /\ ppc = "none"
    /\ pexc = "none"
    /\ it = 0
    /\ cur = NoIdUnit
    /\ newIds = <<>>
    /\ todo = <<>>
    /\ regMethod = ""
    /\ drain = <<>>
    /\ missed = {}
    /\ ruc = NotRun
    /\ sent = {}
    /\ arrived = <<>>

\* ------------------------------------------------- the correlation table
\* The operations of WebsocketResponsesManager / SendReceiveSyncHelper on a
\* record t that has the fields pending_ids, history, unhandled and event.
Table == [pending_ids |-> pending_ids, history |-> history,
          unhandled |-> unhandled, event |-> event]

\* add_pending_id without the write of the method history.
add_pending_id_NoHistory(t, id, m) ==
    [t EXCEPT !.pending_ids = Append(@, id)]

add_pending_id(t, id, m) ==
    [t EXCEPT !.pending_ids = Append(@, id), !.history = (id :> m) @@ @]

RECURSIVE add_pending_ids(_, _, _)
add_pending_ids(t, ids, m) ==
    IF ids = <<>> THEN t
    ELSE add_pending_ids(add_pending_id(t, Head(ids), m), Tail(ids), m)

\* list.remove raises ValueError when the id is absent: CanRemovePending
\* tells whether the call returns.
CanRemovePending(t, id) == id \in Range(t.pending_ids)

remove_pending_id(t, id) ==
    [t EXCEPT !.pending_ids = RemoveFirst(@, id)]

is_method(t, id, m) == id \in DOMAIN t.history /\ t.history[id] = m

is_pending_MethodOnly(t, id, m) == is_method(t, id, m)

is_pending(t, id, m) == id \in Range(t.pending_ids) /\ is_method(t, id, m)

add_unhandled(t, r) == [t EXCEPT !.unhandled = Append(@, r)]

CanRemoveUnhandled(t, r) == r \in Range(t.unhandled)

remove_unhandled(t, r) == [t EXCEPT !.unhandled = RemoveFirst(@, r)]

were_all_precessed_PendingOnly(t) == t.pending_ids = <<>>

were_all_precessed_Either(t) == t.pending_ids = <<>> \/ t.unhandled = <<>>

were_all_precessed(t) == t.pending_ids = <<>> /\ t.unhandled = <<>>

\* A notification that flips the signal.
notify_new_response_Toggle(t) == [t EXCEPT !.event = ~@]

notify_new_response(t) == [t EXCEPT !.event = TRUE]

is_there_response_notification(t) == t.event

clear_response_notifications(t) == [t EXCEPT !.event = FALSE]

\* ---------------------------------------------------------- the event loop
\* The loop runs tasks while run_until_complete has not returned, and only
\* when the running task yields: a producer that iterates without awaiting
\* (ppc = "spin") keeps the loop for ever.
LoopAlive == driver \in {"running", "teardown"} /\ ppc # "spin"

\* -------------------------------------------------------------- the server
\* The reply of the server to request q, from the document it holds.
Answer(q) ==
    IF q.method = GET_DOCUMENT
    THEN IF variant = "scanner"
         THEN Reply(q.id, doc.hasWidgets, "", <<>>, q.arg)
         ELSE Reply(q.id, FALSE, doc.type, doc.containers, q.arg)
    ELSE IF q.method = GET_FIELDS_SUMMARY
    THEN Reply(q.id, FALSE, "", doc.containers, 0)
    ELSE Reply(q.id, FALSE, "", <<>>, q.arg)

\* A reply to an id the session never issues.
UnknownReply == Reply(-1, FALSE, "", <<>>, 0)

\* ------------------------------------------------------------ the consumer
\* The body with the result put at the front of the list.
ConsumeIdentified_Prepend(t, res, r) ==
    LET terminal == is_pending(t, r.id, GET_WIDGET_PROPERTIES)
        t1 == IF terminal THEN t ELSE add_unhandled(t, r)
        res1 == IF terminal THEN <<r.val>> \o res ELSE res
    IN  IF CanRemovePending(t1, r.id)
        THEN [t |-> notify_new_response(remove_pending_id(t1, r.id)),
              results |-> res1, pc |-> "recv", exc |-> "none", log |-> {}]
        ELSE [t |-> t1, results |-> res1, pc |-> "failed",
              exc |-> "ValueError", log |-> {}]

\* The body of `async for message in websocket` for a unit r that carries an
\* id: the new table, result list, task state, exception and log.
ConsumeIdentified(t, res, r) ==
    LET terminal == is_pending(t, r.id, GET_WIDGET_PROPERTIES)
        t1 == IF terminal THEN t ELSE add_unhandled(t, r)
        res1 == IF terminal THEN Append(res, r.val) ELSE res
    IN  IF CanRemovePending(t1, r.id)
        THEN [t |-> notify_new_response(remove_pending_id(t1, r.id)),
              results |-> res1, pc |-> "recv", exc |-> "none", log |-> {}]
        ELSE [t |-> t1, results |-> res1, pc |-> "failed",
              exc |-> "ValueError", log |-> {}]

ConsumeUnit_NoIdCheck(t, res, r) == ConsumeIdentified(t, res, r)

\* The whole body: a unit without id is logged and skipped.
ConsumeUnit(t, res, r) ==
    IF r.id = 0
    THEN [t |-> t, results |-> res, pc |-> "recv", exc |-> "none",
          log |-> {"unknown_message"}]
    ELSE ConsumeIdentified(t, res, r)

\* The consumer takes unit r from the websocket and runs the loop body.  The
\* arrival of a unit and its consumption are one step: the queue of the
\* websocket is first-in first-out and the consumer is its only reader, so a
\* unit that waits in the queue behaves as one that arrives later.
ConsumerTakes(r) ==
    /\ LoopAlive
    /\ cpc = "recv"
    /\ channel \in {"open", "closing"}
    /\ LET c == ConsumeUnit(Table, results, r)
       IN  /\ pending_ids' = c.t.pending_ids
           /\ history' = c.t.history
           /\ unhandled' = c.t.unhandled
           /\ event' = c.t.event
           /\ results' = c.results
           /\ cpc' = c.pc
           /\ cexc' = c.exc
           /\ logged' = logged \cup c.log
    /\ UNCHANGED <<variant, doc, crawl, driverVars, channel, counter, producerVars,
                   sent>>

\* The server answers one of the requests it has received, in any order, and
\* the consumer takes the reply.
ConsumerReceivesReply ==
    \E q \in wire :
        /\ ConsumerTakes(Answer(q))
        /\ wire' = wire \ {q}
        /\ arrived' = IF q.method = GET_WIDGET_PROPERTIES
                      THEN Append(arrived, Answer(q).val)
                      ELSE arrived
        /\ UNCHANGED bad

\* A misbehaving server sends a unit without id.
ConsumerReceivesNoId ==
    /\ bad < MaxBad
    /\ ConsumerTakes(NoIdUnit)
    /\ bad' = bad + 1
    /\ UNCHANGED <<wire, arrived>>

\* A misbehaving server sends a reply to an id that was never issued.
ConsumerReceivesUnknown ==
    /\ bad < MaxBad
    /\ ConsumerTakes(UnknownReply)
    /\ bad' = bad + 1
    /\ UNCHANGED <<wire, arrived>>

\* A misbehaving server sends again a reply it has sent before.
ConsumerReceivesDuplicate ==
    /\ bad < MaxBad
    /\ \E q \in sent \ wire : ConsumerTakes(Answer(q))
    /\ bad' = bad + 1
    /\ UNCHANGED <<wire, arrived>>

\* The iteration ends when the connection is closed.
ConsumerEndOfStream ==
    /\ LoopAlive
    /\ cpc = "recv"
    /\ channel = "closed"
    /\ cpc' = "done"
    /\ UNCHANGED <<variant, doc, crawl, driverVars, logged, channel, serverVars,
                   counter, tableVars, cexc, results, producerVars, sent,
                   arrived>>

\* ------------------------------------------------------------ the producer
\* The producer runs on a record s holding its own state, the table and the
\* part of the channel it writes: PS is that record in the current state.
\* s.progress tells whether the current iteration of the while loop has
\* suspended or handled a reply.
PS == [ppc |-> ppc, pexc |-> pexc, it |-> it, cur |-> cur, newIds |-> newIds,
       todo |-> todo, regMethod |-> regMethod, drain |-> drain,
       missed |-> missed, progress |-> TRUE,
       counter |-> counter, wire |-> wire, sent |-> sent,
       channel |-> channel, pending_ids |-> pending_ids, history |-> history,
       unhandled |-> unhandled, event |-> event]

ProducerFails(s, e) == [s EXCEPT !.ppc = "failed", !.pexc = e]

\* The counter read without the increment.
generate_request_id_NoIncrement(c) == c

\* `self.__requests_counter += 1; return self.__requests_counter`: no await
\* between the two, so no other task of the loop runs in between (the
\* inspector holds a threading.Lock as well).
generate_request_id(c) == c + 1

\* One __send_*_request up to its await: the id is generated, then
\* websocket.send raises ConnectionClosed unless the connection is open,
\* else writes the frame.
websocket_send(s, m, a) ==
    LET id == generate_request_id(s.counter)
    IN  IF s.channel # "open"
        THEN ProducerFails([s EXCEPT !.counter = id], "ConnectionClosed")
        ELSE [s EXCEPT !.counter = id,
                       !.wire = @ \cup {Request(id, m, a)},
                       !.sent = @ \cup {Request(id, m, a)},
                                              !.newIds = Append(@, id)]

\* A handler that sends one follow-up request: the producer is suspended in
\* `await websocket.send` and registers the id when it resumes.
SendOne(s, m, a) ==
    LET s1 == websocket_send([s EXCEPT !.newIds = <<>>, !.regMethod = m], m, a)
    IN  IF s1.ppc = "failed" THEN s1 ELSE [s1 EXCEPT !.ppc = "send"]

\* The reply s.cur has been handled: remove_unhandled, and the loop goes on.
Handled(s) ==
    IF CanRemoveUnhandled(s, s.cur)
    THEN [remove_unhandled(s, s.cur) EXCEPT !.ppc = "for", !.progress = TRUE,
                                            !.newIds = <<>>, !.todo = <<>>]
    ELSE ProducerFails(s, "ValueError")

\* A handler that fans out one request per argument with asyncio.gather: with
\* no argument gather is done at once, add_pending_ids registers nothing and
\* the reply is removed; otherwise the producer is suspended until every
\* child send is done.
FanOut(s, m, args) ==
    IF args = <<>>
    THEN Handled(add_pending_ids(s, <<>>, m))
    ELSE [s EXCEPT !.ppc = "gather", !.todo = args, !.newIds = <<>>,
                   !.regMethod = m]

\* __send_follow_up_msg_scan_widgets / __send_follow_up_msg_get_widgets for
\* the reply s.cur, up to the first suspension.
SendFollowUp(s) ==
    LET id == s.cur.id
    IN  IF variant = "scanner"
        THEN IF is_method(s, id, GET_DOCUMENT)
             THEN IF s.cur.hasWidgets
                  THEN SendOne(s, GET_FIELDS_SUMMARY, s.cur.val)
                  ELSE Handled(s)
             ELSE IF is_method(s, id, GET_FIELDS_SUMMARY)
             THEN FanOut(s, GET_WIDGET_CONTAINER, s.cur.ids)
             ELSE IF is_method(s, id, GET_WIDGET_CONTAINER)
             THEN SendOne(s, GET_WIDGET_PROPERTIES, s.cur.val)
             ELSE s
        ELSE IF is_method(s, id, GET_DOCUMENT)
             THEN IF s.cur.type \notin GUI_DOC_TYPES
                  THEN Handled(s)
                  ELSE FanOut(s, GET_WIDGET_CONTAINER, s.cur.ids)
             ELSE IF is_method(s, id, GET_WIDGET_CONTAINER)
             THEN SendOne(s, GET_WIDGET_PROPERTIES, s.cur.val)
             ELSE s

\* The stages whose replies a follow-up handler exists for.
FollowUpStages(v) ==
    IF v = "scanner"
    THEN {GET_DOCUMENT, GET_FIELDS_SUMMARY, GET_WIDGET_CONTAINER}
    ELSE {GET_DOCUMENT, GET_WIDGET_CONTAINER}

\* __send_follow_up_msg_* has a branch for reply r.
HasFollowUp(t, r) == \E m \in FollowUpStages(variant) : is_method(t, r.id, m)

\* `for response in get_all_unhandled()` starts: the iterator is at the
\* first element of the list.
StartDrain(s) == [s EXCEPT !.ppc = "for", !.it = 0, !.drain = s.unhandled]

\* The for loop ends: the iterator's index is past the end of the list.
EndDrain(s) ==
    [s EXCEPT !.drain = <<>>,
              !.missed = {r \in Range(s.drain) :
                             r \in Range(s.unhandled) /\ HasFollowUp(s, r)}]

\* websocket.close(): starts the closing handshake of an open connection and
\* waits until the connection is closed.
websocket_close(s) ==
    [s EXCEPT !.ppc = "closing",
              !.channel = IF @ = "open" THEN "closing" ELSE @]

\* The producer from the top of its while loop (s.ppc = "top") or from the
\* next element of its for loop (s.ppc = "for") to its next suspension.  The
\* for loop iterates over the unhandled list itself, by index, while the
\* handlers remove from it.  An iteration of the while loop that neither
\* suspended nor handled a reply leaves every variable as it was, so the
\* loop repeats it for ever without awaiting: s.ppc = "spin".
RECURSIVE RunProducer(_)
RunProducer(s) ==
    IF s.ppc = "top"
    THEN IF ~HasAttr(variant, CompletionTestCall(variant))
         THEN ProducerFails(s, "AttributeError")
         ELSE IF were_all_precessed(s)
         THEN websocket_close(s)
         ELSE IF ~is_there_response_notification(s)
         THEN [s EXCEPT !.ppc = "wait"]
         ELSE RunProducer([StartDrain(s) EXCEPT !.progress = FALSE])
    ELSE IF s.ppc = "for"
    THEN IF s.it >= Len(s.unhandled)
         THEN IF s.progress
              THEN RunProducer([EndDrain(s) EXCEPT !.ppc = "top"])
              ELSE [EndDrain(s) EXCEPT !.ppc = "spin"]
         ELSE LET s1 == SendFollowUp([s EXCEPT !.it = @ + 1,
                                               !.cur = s.unhandled[s.it + 1]])
              IN  IF s1.ppc = "for" THEN RunProducer(s1) ELSE s1
    ELSE s

\* The state after a run of the producer that ended in s.
ProducerYields(s) ==
    /\ ppc' = s.ppc
    /\ pexc' = s.pexc
    /\ it' = s.it
    /\ cur' = s.cur
    /\ newIds' = s.newIds
    /\ todo' = s.todo
    /\ regMethod' = s.regMethod
    /\ drain' = s.drain
    /\ missed' = s.missed
    /\ counter' = s.counter
    /\ wire' = s.wire
    /\ sent' = s.sent
    /\ channel' = s.channel
    /\ pending_ids' = s.pending_ids
    /\ history' = s.history
    /\ unhandled' = s.unhandled
    /\ event' = s.event
    /\ UNCHANGED <<variant, doc, crawl, driverVars, logged, bad, consumerVars,
                   arrived>>

\* The first run of the producer task.
ProducerStarts ==
    /\ LoopAlive
    /\ ppc = "start"
    /\ ProducerYields(RunProducer([PS EXCEPT !.ppc = "top"]))

\* wait_for_responses returns once the signal is set; the producer clears
\* the signal and drains the unhandled list.
ProducerWakes ==
    /\ LoopAlive
    /\ ppc = "wait"
    /\ event
    /\ ProducerYields(RunProducer(
           StartDrain(clear_response_notifications(PS))))

\* `await websocket.send` of a single follow-up request returns: the id is
\* registered as pending, the reply removed, and the for loop goes on.
ProducerSendReturns ==
    /\ LoopAlive
    /\ ppc = "send"
    /\ ProducerYields(RunProducer(
           Handled(add_pending_id(PS, newIds[1], regMethod))))

\* One child of the fan-out's gather runs its send.  A child that fails
\* fails the gather, and with it the producer.
FanOutChildSends ==
    /\ LoopAlive
    /\ ppc = "gather"
    /\ todo # <<>>
    /\ ProducerYields(
           websocket_send([PS EXCEPT !.todo = Tail(@)], regMethod, Head(todo)))

\* The gather returns the ids of all its children, in the order of its
\* arguments; add_pending_ids registers them and the reply is removed.
ProducerGatherReturns ==
    /\ LoopAlive
    /\ ppc = "gather"
    /\ todo = <<>>
    /\ ProducerYields(RunProducer(
           Handled(add_pending_ids(PS, newIds, regMethod))))

\* `await websocket.close()` returns once the connection is closed.
ProducerCloseReturns ==
    /\ LoopAlive
    /\ ppc = "closing"
    /\ channel = "closed"
    /\ ProducerYields([PS EXCEPT !.ppc = "done"])

\* ------------------------------------------------------------- the channel
\* The closing handshake of the connection completes.
ChannelCloses ==
    /\ LoopAlive
    /\ channel = "closing"
    /\ channel' = "closed"
    /\ UNCHANGED <<variant, doc, crawl, driverVars, logged, serverVars, counter,
                   tableVars, consumerVars, producerVars, sent, arrived>>

\* ---------------------------------------------------------- session driver
\* websockets.connect fails: nothing was sent and no task was created.
ConnectFails ==
    /\ driver = "init"
    /\ driver' = "raising"
    /\ exc' = "ConnectionError"
    /\ UNCHANGED <<variant, doc, crawl, outcome, retval, ruc, logged, channel,
                   serverVars, counter, tableVars, consumerVars,
                   producerVars, sent, arrived>>

\* The workload started with the root request sent and its id not
\* registered.
StartWorkload_Unregistered ==
    /\ driver = "init"
    /\ LET s == websocket_send([PS EXCEPT !.channel = "open"], GET_DOCUMENT, 0)
       IN  /\ counter' = s.counter
           /\ wire' = s.wire
           /\ sent' = s.sent
           /\ channel' = s.channel
    /\ driver' = "running"
    /\ cpc' = "recv"
    /\ ppc' = "start"
    /\ UNCHANGED <<variant, doc, crawl, exc, outcome, retval, ruc, logged, bad,
                   tableVars, cexc, results, pexc, it, cur, newIds,
                   todo, regMethod, drain, missed, arrived>>

\* The connection opens; the root GetDocument request is sent and its id
\* registered; wait_for starts the gather of the consumer and the producer.
StartWorkload ==
    /\ driver = "init"
    /\ LET s == websocket_send([PS EXCEPT !.channel = "open"], GET_DOCUMENT, 0)
           t == add_pending_id(s, s.newIds[1], GET_DOCUMENT)
       IN  /\ counter' = t.counter
           /\ wire' = t.wire
           /\ sent' = t.sent
           /\ channel' = t.channel
           /\ pending_ids' = t.pending_ids
           /\ history' = t.history
    /\ driver' = "running"
    /\ cpc' = "recv"
    /\ ppc' = "start"
    /\ UNCHANGED <<variant, doc, crawl, exc, outcome, retval, ruc, logged, bad,
                   unhandled, event, cexc, results, pexc, it, cur, newIds,
                   todo, regMethod, drain, missed, arrived>>

TaskAlive(pc) == pc \in {"start", "recv", "wait", "send", "gather", "closing", "spin"}

\* task.cancel() followed by the loop running the task once.
Cancelled(pc) == IF TaskAlive(pc) THEN "cancelled" ELSE pc

\* The time budget elapses and the loop runs the timer of wait_for: the
\* gather and so both tasks are cancelled, wait_for raises TimeoutError and `async with` closes the
\* connection.
TimeoutFires ==
    /\ LoopAlive
    /\ driver = "running"
    /\ cpc' = Cancelled(cpc)
    /\ ppc' = Cancelled(ppc)
    /\ exc' = "TimeoutError"
    /\ driver' = "teardown"
    /\ channel' = IF channel = "open" THEN "closing" ELSE channel
    /\ UNCHANGED <<variant, doc, crawl, outcome, retval, ruc, logged, serverVars,
                   counter, tableVars, cexc, results, pexc, it, cur, newIds,
                   todo, regMethod, drain, missed, sent, arrived>>

\* A task of the gather has raised: gather hands the exception to wait_for
\* without cancelling the other task, and `async with` closes the connection.
GatherPropagates ==
    /\ LoopAlive
    /\ driver = "running"
    /\ \/ cpc = "failed" /\ exc' = cexc
       \/ ppc = "failed" /\ exc' = pexc
    /\ driver' = "teardown"
    /\ channel' = IF channel = "open" THEN "closing" ELSE channel
    /\ UNCHANGED <<variant, doc, crawl, outcome, retval, ruc, logged, serverVars,
                   counter, tableVars, consumerVars, producerVars, sent,
                   arrived>>

\* The connection is closed: the failure leaves __scan_widgets /
\* __get_widgets and run_until_complete raises it.
TeardownEnds ==
    /\ LoopAlive
    /\ driver = "teardown"
    /\ channel = "closed"
    /\ driver' = "raising"
    /\ UNCHANGED <<variant, doc, crawl, exc, outcome, retval, ruc, logged, channel,
                   serverVars, counter, tableVars, consumerVars,
                   producerVars, sent, arrived>>

RunUntilCompleteHandler_TimeoutOnly(v) == "TimeoutError"

\* The exception class the `except` clause of __run_until_complete names.
RunUntilCompleteHandler(v) == IF v = "scanner" THEN "TimeoutError" ELSE "Exception"

\* What __run_until_complete logs on a failure before it re-raises.
RunUntilCompleteLog(v, e) ==
    IF ~Catches(RunUntilCompleteHandler(v), e) THEN {}
    ELSE IF v = "scanner" THEN {"timeout"} ELSE {"cancel_all"}

\* __run_until_complete on a coroutine that returned res (e = "none") or
\* ended with failure e.  asyncio.Task.all_tasks is the call of the interpreter
\* the code was written for (it exists up to Python 3.8, the first version
\* with the AsyncMock of the tests).  DocumentInspector cancels every task
\* of the loop in its handler and closes the loop in `finally`;
\* DocumentScanner cancels them and stops the loop on a timeout only, and
\* never closes the loop.
RunUntilComplete(v, res, e) ==
    [status |-> IF e = "none" THEN "returned" ELSE "raised",
     value |-> IF e = "none" THEN res ELSE <<>>,
     raised |-> e,
     cancel_calls |-> IF e # "none" /\ Catches(RunUntilCompleteHandler(v), e)
                      THEN 1 ELSE 0,
     closed |-> v = "inspector"]

PublicCall_TimeoutOnly(res, e) ==
    IF e = "none" THEN [outcome |-> "returned", retval |-> res, log |-> {}]
    ELSE IF Catches("TimeoutError", e)
    THEN [outcome |-> "returned", retval |-> <<>>, log |-> {"error"}]
    ELSE [outcome |-> "raised", retval |-> <<>>, log |-> {}]

\* scan_widgets / get_widgets around __run_until_complete: the result of
\* the session, or an empty list for a failure that `except Exception`
\* catches.
PublicCall(res, e) ==
    IF e = "none" THEN [outcome |-> "returned", retval |-> res, log |-> {}]
    ELSE IF Catches("Exception", e)
    THEN [outcome |-> "returned", retval |-> <<>>, log |-> {"error"}]
    ELSE [outcome |-> "raised", retval |-> <<>>, log |-> {}]

\* Both tasks have returned: the gather yields the consumer's list, which
\* goes through wait_for and run_until_complete to the caller.
SessionReturns ==
    /\ LoopAlive
    /\ driver = "running"
    /\ cpc = "done"
    /\ ppc = "done"
    /\ driver' = "finished"
    /\ outcome' = PublicCall(results, "none").outcome
    /\ retval' = PublicCall(results, "none").retval
    /\ ruc' = RunUntilComplete(variant, results, "none")
    /\ UNCHANGED <<variant, doc, crawl, exc, logged, channel, serverVars, counter,
                   tableVars, consumerVars, producerVars, sent, arrived>>

\* run_until_complete raised: __run_until_complete handles and re-raises,
\* the public method handles.
SessionFails ==
    /\ driver = "raising"
    /\ driver' = "finished"
    /\ outcome' = PublicCall(results, exc).outcome
    /\ retval' = PublicCall(results, exc).retval
    /\ ruc' = RunUntilComplete(variant, results, exc)
    /\ logged' = logged \cup RunUntilCompleteLog(variant, exc)
                        \cup PublicCall(results, exc).log
    /\ UNCHANGED <<variant, doc, crawl, exc, channel, serverVars, counter,
                   tableVars, consumerVars, producerVars, sent, arrived>>

\* ------------------------------------------------------------ specification
\* The steps of the session other than the expiry of its time budget.
InTime ==
    \/ ConnectFails
    \/ StartWorkload
    \/ ChannelCloses
    \/ ConsumerReceivesReply
    \/ ConsumerReceivesNoId
    \/ ConsumerReceivesUnknown
    \/ ConsumerReceivesDuplicate
    \/ ConsumerEndOfStream
    \/ ProducerStarts
    \/ ProducerWakes
    \/ ProducerSendReturns
    \/ FanOutChildSends
    \/ ProducerGatherReturns
    \/ ProducerCloseReturns
    \/ GatherPropagates
    \/ TeardownEnds
    \/ SessionReturns
    \/ SessionFails

Next == InTime \/ TimeoutFires

Spec == Init /\ [][Next]_vars

\* __run_until_complete on its own, for a coroutine with any outcome: the
\* coroutine has returned a list, or it has raised an exception.
ResultLists ==
    UNION {[1..n -> 1..MaxContainers] : n \in 0..MaxContainers}

InitRunUntilComplete ==
    /\ variant \in Variants
    /\ doc = [hasWidgets |-> FALSE, type |-> "", containers |-> <<>>]
    /\ crawl = 1
    /\ results \in ResultLists
    /\ \/ /\ driver = "running"
          /\ exc = "none"
          /\ cpc = "done"
          /\ ppc = "done"
       \/ /\ driver = "raising"
          /\ exc \in ExceptionClasses
          /\ cpc = "cancelled"
          /\ ppc = "cancelled"
    /\ outcome = "pending"
    /\ retval = <<>>
    /\ logged = {}
    /\ channel = "closed"
    /\ wire = {}
    /\ bad = 0
    /\ counter = 0
    /\ pending_ids = <<>>
    /\ history = <<>>
    /\ unhandled = <<>>
    /\ event = FALSE
    /\ cexc = "none"
    /\ pexc = "none"
    /\ it = 0
    /\ cur = NoIdUnit
    /\ newIds = <<>>
    /\ todo = <<>>
    /\ regMethod = ""
    /\ drain = <<>>
    /\ missed = {}
    /\ ruc = NotRun
    /\ sent = {}
    /\ arrived = <<>>

NextRunUntilComplete == SessionReturns \/ SessionFails

SpecRunUntilComplete ==
    InitRunUntilComplete /\ [][NextRunUntilComplete]_vars

\* scan_widgets / get_widgets is called again on the same object after the
\* call before it has ended.  The call makes a new event loop, a new
\* connection and a new table, and its tasks are new; the tasks the earlier
\* loop left behind never run again.  The counter is an attribute of the
\* object, set in __init__ only: the new call finds it as the earlier call
\* left it.
SecondCrawl ==
    /\ driver = "finished"
    /\ crawl < MaxCrawls
    /\ crawl' = crawl + 1
    /\ driver' = "init"
    /\ exc' = "none"
    /\ outcome' = "pending"
    /\ retval' = <<>>
    /\ ruc' = NotRun
    /\ channel' = "none"
    /\ wire' = {}
    /\ bad' = 0
    /\ pending_ids' = <<>>
    /\ history' = <<>>
    /\ unhandled' = <<>>
    /\ event' = FALSE
    /\ cpc' = "none"
    /\ cexc' = "none"
    /\ results' = <<>>
    /\ ppc' = "none"
    /\ pexc' = "none"
    /\ it' = 0
    /\ cur' = NoIdUnit
    /\ newIds' = <<>>
    /\ todo' = <<>>
    /\ regMethod' = ""
    /\ drain' = <<>>
    /\ missed' = {}
    /\ sent' = {}
    /\ arrived' = <<>>
    /\ UNCHANGED <<variant, doc, logged, counter>>

NextTwoCrawls == Next \/ SecondCrawl

SpecTwoCrawls == Init /\ [][NextTwoCrawls]_vars

\* ------------------------------------------------------------------ claims
\* The server has sent nothing but one reply per request.
Honest == bad = 0

\* The connection was opened and the session started.
Started == channel # "none"

\* The time budget has not elapsed.
BeforeDeadline == exc # "TimeoutError"

\* The session ended normally: both loops returned and the consumer's list
\* was handed back.
EndedNormally == driver = "finished" /\ exc = "none"

TerminalRequests == {q \in sent : q.method = GET_WIDGET_PROPERTIES}

\* C1: with a server that answers every request exactly once and sends
\* nothing else, and before the deadline, a DocumentScanner session ends
\* normally under every interleaving: no task fails, the producer never
\* loops without suspending, the session can always take a next step until
\* it has ended, and it then returns one properties object per
\* GetWidgetProperties request issued, in the order the terminal replies
\* arrived, with the pending list and the unhandled list empty.
C1_ScannerSessionEndsNormally ==
    (variant = "scanner" /\ Started /\ Honest /\ BeforeDeadline) =>
        /\ exc = "none"
        /\ cpc # "failed"
        /\ ppc \notin {"failed", "spin"}
        /\ driver # "finished" => ENABLED InTime
        /\ driver = "finished" =>
              /\ outcome = "returned"
              /\ retval = arrived
              /\ Len(retval) = Cardinality(TerminalRequests)
              /\ pending_ids = <<>>
              /\ unhandled = <<>>

\* C2: against a server that answers every request exactly once, and before
\* the deadline, DocumentInspector.get_widgets for a document of an
\* accepted type with N >= 1 widget containers returns a list of exactly N
\* widget property objects, with the pending and the unhandled list empty.
C2_GetWidgetsReturnsAllWidgets ==
    (/\ variant = "inspector"
     /\ Started /\ Honest /\ BeforeDeadline
     /\ doc.type \in GUI_DOC_TYPES
     /\ Len(doc.containers) >= 1
     /\ driver = "finished") =>
        /\ outcome = "returned"
        /\ Len(retval) = Len(doc.containers)
        /\ pending_ids = <<>>
        /\ unhandled = <<>>

\* C3: the public entry points never raise to the caller; a session that
\* failed for any reason returns an empty list, a session that succeeded
\* returns the consumer's result list unchanged.
C3_PublicCallNeverRaises ==
    /\ outcome # "raised"
    /\ (outcome = "returned" /\ exc # "none") => retval = <<>>
    /\ (outcome = "returned" /\ exc = "none") => retval = results
    /\ driver = "finished" => outcome = "returned"

\* A session that had collected a result failed in the consumer, and the
\* public call returned the empty list.
C3_Witness ==
    /\ outcome = "returned"
    /\ exc = "ValueError"
    /\ results # <<>>
    /\ retval = <<>>

\* C4: in every session that ends normally the pending list and the
\* unhandled list are both empty when the result list is returned.
C4_CompletionInvariant ==
    EndedNormally => (pending_ids = <<>> /\ unhandled = <<>>)

\* A scanner session ended normally with two results.
C4_Witness ==
    /\ EndedNormally
    /\ variant = "scanner"
    /\ Len(retval) >= 2

\* C5: the producer closes the channel only in a step at whose end, after
\* the ids registered and the replies removed by the drain before it, the
\* pending list is empty, the unhandled list is empty and no request that
\* was sent is still unanswered.
C5_ClosesOnlyWhenComplete ==
    [][(ppc # "closing" /\ ppc' = "closing") =>
          (pending_ids' = <<>> /\ unhandled' = <<>> /\ wire' = {})]_vars

\* The producer has closed the channel after the whole tree was crawled.
C5_Witness ==
    /\ ppc = "closing"
    /\ Cardinality(TerminalRequests) >= 2
    /\ driver = "running"

\* C6: the loop can run the timeout of the session from every reachable
\* state of a running session; the timeout leaves neither the consumer nor
\* the producer alive, and the public call then returns the empty list.
C6_TimeoutEndsSession ==
    /\ driver = "running" => ENABLED TimeoutFires
    /\ exc = "TimeoutError" => (~TaskAlive(cpc) /\ ~TaskAlive(ppc))
    /\ (exc = "TimeoutError" /\ driver = "finished") =>
          (outcome = "returned" /\ retval = <<>>)

\* C7: the producer never busy-polls: every iteration of its loop in which
\* the session is not complete suspends on the signal, suspends in a send
\* or removes a reply from the unhandled list, so the producer is never in
\* the state in which it repeats an iteration that does none of these.
C7_ProducerNeverBusyPolls == ppc # "spin"

\* C8: whenever the consumer takes the reply to a request the session has
\* sent, the id of that request is registered as pending under the method
\* of the request, and the consumer removes it.
C8_SentIdIsPendingWhenAnswered ==
    [][\A q \in wire :
          (wire' = wire \ {q}) =>
              /\ is_pending(Table, q.id, q.method)
              /\ q.id \notin Range(pending_ids')]_vars

\* C9: a unit without identifier is ignored: the consumer leaves the
\* signal, the pending list, the method history, the unhandled list and the
\* result list unchanged and goes on receiving.
C9_NoIdUnitIgnored ==
    [][ConsumerReceivesNoId =>
          /\ UNCHANGED <<event, pending_ids, history, unhandled, results>>
          /\ cpc' = "recv"]_vars

\* The consumer has skipped a unit without id while the session was waiting
\* for a reply, and the signal is not set.
C9_Witness ==
    /\ "unknown_message" \in logged
    /\ cpc = "recv"
    /\ pending_ids # <<>>
    /\ ~event

\* C10: a reply whose identifier was never registered is dropped: the
\* consumer leaves the pending list, the method history, the result list
\* and the unhandled list unchanged and goes on receiving.
C10_UnregisteredReplyDropped ==
    [][ConsumerReceivesUnknown =>
          /\ UNCHANGED <<pending_ids, history, results, unhandled>>
          /\ cpc' = "recv"]_vars

\* The consumer takes a reply from the websocket whose id is not in the
\* pending list: never registered, or answered before.
ConsumerTakesAbsentId ==
    \/ /\ ConsumerReceivesUnknown
       /\ UnknownReply.id \notin Range(pending_ids)
    \/ /\ ConsumerReceivesDuplicate
       /\ \E q \in sent \ wire :
             ConsumerTakes(Answer(q)) /\ q.id \notin Range(pending_ids)

\* C11: a reply whose identifier is not in the pending list is not fatal:
\* removing the absent id raises nothing, the consumer goes on receiving,
\* and the pending list is left as it was.
C11_AbsentIdIsNotFatal ==
    [][ConsumerTakesAbsentId =>
          /\ cexc' = "none"
          /\ cpc' = "recv"
          /\ pending_ids' = pending_ids]_vars

\* C12: idempotence under duplicate replies: when the reply to an id is
\* delivered a second time, the result list gets no entry for it and no id
\* is removed from the pending list.
C12_DuplicateReplyIdempotent ==
    [][ConsumerReceivesDuplicate =>
          /\ results' = results
          /\ pending_ids' = pending_ids]_vars

\* The reply to a GetWidgetProperties request was delivered twice: its
\* payload is in the result list from the first delivery and the second
\* delivery has been through the consumer.
C12_Witness ==
    /\ bad = 1
    /\ \E q \in TerminalRequests :
          /\ q \notin wire
          /\ Answer(q) \in Range(unhandled)
          /\ Len(SelectSeq(results, LAMBDA v : v = Answer(q).val)) = 1

\* C13: fan-out correctness: when the gather of a fan-out over N child
\* container ids returns, N requests were sent, and once the handler and
\* the removal after it have run the pending list holds exactly the N new
\* ids, each registered under the method of the next stage, the handled
\* reply is not on the unhandled list and the completion test is false.
C13_FanOutRegistersChildren ==
    [][ProducerGatherReturns =>
          LET h == Handled(add_pending_ids(PS, newIds, regMethod))
          IN  /\ Len(newIds) = Len(cur.ids)
              /\ Range(h.pending_ids) = Range(newIds)
              /\ Len(h.pending_ids) = Len(newIds)
              /\ \A id \in Range(newIds) : is_pending(h, id, regMethod)
              /\ cur \notin Range(h.unhandled)
              /\ ~were_all_precessed(h)]_vars

\* The root reply does not qualify for expansion.
RootNotExpandable ==
    IF variant = "scanner" THEN ~doc.hasWidgets ELSE doc.type \notin GUI_DOC_TYPES

\* C14: with a root reply that does not qualify for expansion, an honest
\* server and the deadline not reached, the session issues no request but
\* the root one, no task fails, the session can always take a next step
\* until it has ended, the producer closes the channel only with the reply
\* removed from the unhandled list, and the session ends by both loops
\* returning, with an empty result list.
C14_UnexpandableRootEndsEmpty ==
    (RootNotExpandable /\ Started /\ Honest /\ BeforeDeadline) =>
        /\ sent = {Request(1, GET_DOCUMENT, 0)}
        /\ exc = "none"
        /\ cpc # "failed"
        /\ ppc \notin {"failed", "spin"}
        /\ ppc \in {"closing", "done"} => (unhandled = <<>> /\ pending_ids = <<>>)
        /\ driver # "finished" => ENABLED InTime
        /\ driver = "finished" =>
              /\ ppc = "done"
              /\ cpc = "done"
              /\ outcome = "returned"
              /\ retval = <<>>

C16_ResultsInArrivalOrder ==
    [][\A q \in sent :
          ConsumerTakes(Answer(q)) =>
              /\ IF is_pending(Table, q.id, GET_WIDGET_PROPERTIES)
                 THEN /\ results' = Append(results, Answer(q).val)
                      /\ unhandled' = unhandled
                 ELSE /\ results' = results
                      /\ unhandled' = Append(unhandled, Answer(q))
              /\ cpc' # "failed" => results' = arrived']_vars

\* Two terminal replies arrived in the order opposite to that of their
\* requests, and the non-terminal replies before them went to the producer.
C16_Witness ==
    /\ results = <<2, 1>>
    /\ cpc = "recv"
    /\ bad = 0

\* A run of the producer ends suspended in the handler of a reply: the
\* reply is the one under the iterator of the for loop, and its follow-up
\* is being issued.
ProducerPicksReply ==
    /\ \/ ProducerStarts
       \/ ProducerWakes
       \/ ProducerSendReturns
       \/ ProducerGatherReturns
    /\ ppc' \in {"send", "gather"}

\* C17: the producer handles the replies on the unhandled list in enqueue
\* order: when it issues the follow-up of a reply, no reply that stands
\* before it on the list, and so was enqueued before it, still waits for
\* its own follow-up.
C17_FollowUpsInEnqueueOrder ==
    [][ProducerPicksReply =>
          \A j \in 1..(it' - 1) : ~HasFollowUp([history |-> history'], unhandled'[j])]_vars

\* A step of the producer task.
ProducerStep ==
    \/ ProducerStarts
    \/ ProducerWakes
    \/ ProducerSendReturns
    \/ FanOutChildSends
    \/ ProducerGatherReturns
    \/ ProducerCloseReturns

\* A step in which the consumer task takes a unit from the channel.
ConsumerStep ==
    \/ ConsumerReceivesReply
    \/ ConsumerReceivesNoId
    \/ ConsumerReceivesUnknown
    \/ ConsumerReceivesDuplicate

\* C18: no dangling task: once the consumer has failed the producer takes
\* no further step, and once the producer has failed the consumer takes no
\* further unit from the channel.
C18_NoStepAfterSiblingFailed ==
    [][/\ cpc = "failed" => ~ProducerStep
       /\ ppc = "failed" => ~ConsumerStep]_vars

\* C19: DocumentInspector.__run_until_complete returns the result of the
\* coroutine when the coroutine returns, without cancelling anything; when
\* the coroutine fails it cancels the tasks of the loop exactly once and
\* raises the same failure; it closes the loop on both paths.
C19_InspectorRunUntilComplete ==
    (variant = "inspector" /\ ruc.status # "none") =>
        /\ ruc.closed
        /\ exc = "none" =>
              /\ ruc.status = "returned"
              /\ ruc.value = results
              /\ ruc.cancel_calls = 0
        /\ exc # "none" =>
              /\ ruc.status = "raised"
              /\ ruc.raised = exc
              /\ ruc.cancel_calls = 1

\* The coroutine failed with an exception other than a timeout, and
\* __run_until_complete of the inspector has handled it.
C19_Witness ==
    /\ variant = "inspector"
    /\ exc = "ValueError"
    /\ ruc.status = "raised"
    /\ ruc.cancel_calls = 1
    /\ ruc.closed

\* C20: one pass of the producer's for loop handles every reply that was on
\* the unhandled list when the pass started: even with a server that answers
\* every request once and sends nothing else, no finished pass has left on
\* the list a reply that was there at its start and has a follow-up
\* handler.
C20_DrainPassHandlesAll == Honest => missed = {}

\* Reply r is on the unhandled list, the consumer has cleared its id from
\* the pending list, and a follow-up handler exists for its method.
AwaitsFollowUp(r) ==
    /\ r \in Range(unhandled)
    /\ HasFollowUp(Table, r)
    /\ r.id \notin Range(pending_ids)

\* C21: no lost wake-up, with a server that answers every request once and
\* sends nothing else: the producer is never suspended on the signal with
\* the signal clear, the unhandled list non-empty and the pending list
\* empty; and a session that has ended without being cancelled by the
\* timeout has left no reply waiting for its follow-up on the unhandled
\* list (a session that has ended handles nothing any more, so such a reply
\* is never handled).
C21_NoLostWakeUp ==
    Honest =>
        /\ ~(/\ ppc = "wait"
             /\ ~event
             /\ unhandled # <<>>
             /\ pending_ids = <<>>)
        /\ (driver = "finished" /\ exc # "TimeoutError") =>
              ~\E r \in Range(unhandled) : AwaitsFollowUp(r)

\* C22: the root GetDocument request is sent, with id 1, and its id
\* registered as pending under GetDocument in the step that starts the
\* workload, before the consumer and the producer exist; no other
\* GetDocument request is ever sent; every step of the consumer or the
\* producer finds the request sent and its id in the method history; and
\* the producer's first completion test, made on the table as its first
\* run finds it, does not find the session complete.
C22_RootRegisteredBeforeTasks ==
    [][/\ StartWorkload =>
             /\ cpc = "none" /\ ppc = "none"
             /\ sent' = {Request(1, GET_DOCUMENT, 0)}
             /\ pending_ids' = <<1>>
             /\ history'[1] = GET_DOCUMENT
       /\ Cardinality({q \in sent' : q.method = GET_DOCUMENT}) <= 1
       /\ (ConsumerStep \/ ProducerStep) =>
             /\ Request(1, GET_DOCUMENT, 0) \in sent
             /\ is_method(Table, 1, GET_DOCUMENT)
       /\ ProducerStarts => ~were_all_precessed(Table)]_vars

\* The producer has made its first completion test while the root request
\* was still unanswered, and waits for the signal.
C22_Witness ==
    /\ ppc = "wait"
    /\ pending_ids = <<1>>
    /\ history[1] = GET_DOCUMENT
    /\ sent = {Request(1, GET_DOCUMENT, 0)}
    /\ cpc = "recv"

\* C23: at every suspension point, even with a server that answers every
\* request once and sends nothing else, no reply on the unhandled list has
\* its id in the pending list, and the reply the producer is expanding has
\* its id cleared from the pending list.
C23_UnhandledIdsNotPending ==
    Honest =>
        /\ \A r \in Range(unhandled) : r.id \notin Range(pending_ids)
        /\ ppc \in {"send", "gather"} => cur.id \notin Range(pending_ids)

\* C24: in every step the method history keeps every entry it had, with
\* the method it had; and after every step every id in the pending list has
\* an entry in the method history and no id occurs twice in the pending
\* list.
C24_HistoryGrowsPendingDistinct ==
    [][/\ \A id \in DOMAIN history :
             id \in DOMAIN history' /\ history'[id] = history[id]
       /\ Range(pending_ids') \subseteq DOMAIN history'
       /\ Cardinality(Range(pending_ids')) = Len(pending_ids')]_vars

\* Both ids of a fan-out are pending, after the ids of the two stages
\* before it were registered and removed.
C24_Witness ==
    /\ Len(pending_ids) = 2
    /\ Cardinality(DOMAIN history) >= 4
    /\ \A id \in Range(pending_ids) : history[id] = GET_WIDGET_CONTAINER

\* C25: every crawl run through an object, the first and the one after it
\* alike, numbers its requests from 1: the root request that starts the
\* crawl carries the id 1.
C25_EachCrawlNumbersFromOne ==
    [][StartWorkload => sent' = {Request(1, GET_DOCUMENT, 0)}]_vars

\* Sequence a is an initial part of sequence b.
IsPrefix(a, b) == Len(a) <= Len(b) /\ SubSeq(b, 1, Len(a)) = a

\* C26: a step of the consumer adds no id to the pending list, leaves the
\* method history as it is, removes nothing from the unhandled list and
\* does not clear the signal; a step of the producer removes no id from the
\* pending list, appends nothing to the unhandled list or the result list
\* and does not set the signal; and the producer sends nothing once it has
\* closed the channel.
C26_ConsumerProducerFrames ==
    [][/\ (ConsumerStep \/ ConsumerEndOfStream) =>
             /\ Range(pending_ids') \subseteq Range(pending_ids)
             /\ Len(pending_ids') <= Len(pending_ids)
             /\ history' = history
             /\ IsPrefix(unhandled, unhandled')
             /\ event => event'
       /\ ProducerStep =>
             /\ Range(pending_ids) \subseteq Range(pending_ids')
             /\ Range(unhandled') \subseteq Range(unhandled)
             /\ Len(unhandled') <= Len(unhandled)
             /\ results' = results
             /\ event' => event
             /\ ppc \in {"closing", "done"} => sent' = sent]_vars

\* Both loops have returned after the consumer appended to the result list
\* and the producer sent follow-up requests and closed the channel.
C26_Witness ==
    /\ cpc = "done"
    /\ ppc = "done"
    /\ channel = "closed"
    /\ results # <<>>
    /\ Cardinality(sent) >= 3

====
